---- MODULE Spec2Model ----
(***************************************************************************)
(* gluonts.dataset.common: the record processor (ProcessStartField,        *)
(* ProcessTimeSeriesField, ProcessDataEntry), the two Dataset variants     *)
(* (ListDataset, FileDataset) and save_datasets / load_datasets.           *)
(*                                                                         *)
(* Time is counted in whole hours: a timestamp is a day number (days since *)
(* 1970-01-01, a Thursday) and an hour of that day.  Numbers held by       *)
(* arrays are small integers, exactly representable in float32 and int32.  *)
(***************************************************************************)
EXTENDS Integers, Sequences, FiniteSets, TLC

VARIABLES
    freq,            \* the freq the dataset (its ProcessDataEntry) was built with
    one_dim_target,  \* the one_dim_target flag of the dataset
    cache,           \* lru_cache of ProcessStartField.process, most recent first
    data,            \* the dict handed to ProcessDataEntry.__call__ (mutated in place)
    before,          \* the contents of that dict when the last call began
    outcome,         \* how the last call ended: returned, or raised an error
    calls,           \* the number of calls made on the dict
    heap,            \* the dict objects handed to ListDataset, by identity
    data_iter,       \* the iterable handed to ListDataset: object identities
    list_ds,         \* the ListDataset: construction status and list_data
    iters,           \* the running iterations (generators) of the ListDataset
    disk,            \* the directories holding JSON Lines files
    file_ds,         \* the FileDataset: construction status, path, target mode
    fiters,          \* the running iterations (generators) of the FileDataset
    train_ds         \* the TrainDatasets handed to save_datasets, and what load_datasets returned

vars == <<freq, one_dim_target, cache, data, before, outcome, calls,
          heap, data_iter, list_ds, iters, disk, file_ds, fiters, train_ds>>

procVars == <<data, before, outcome, calls>>
listVars == <<heap, data_iter, list_ds, iters>>
fileVars == <<disk, file_ds, fiters>>

-----------------------------------------------------------------------------
(* Bounds of the model. *)

MaxDay == 40        \* raw timestamps lie on days 0 .. MaxDay
MaxRank == 3        \* raw arrays have rank 0 .. MaxRank
MaxCalls == 2       \* calls of the processor on one dict

-----------------------------------------------------------------------------
(* Calendar: pandas' Timestamp and offsets, counted in days and hours. *)

\* the month-end days around the epoch: 1969-12-31, 1970-01-31, 1970-02-28, 1970-03-31
MonthEnds == {0 - 1, 30, 58, 89}

\* Timestamp.weekday(): Monday = 0 ... Sunday = 6; 1970-01-01 (day 0) is a Thursday
weekday(day) == (day + 3) % 7

\* MonthEnd.onOffset / Week(weekday=6).onOffset / BusinessDay.onOffset
onOffset(name, day) ==
    CASE name = "M" -> day \in MonthEnds
      [] name = "W-SUN" -> weekday(day) = 6
      [] name = "B" -> weekday(day) < 5
      [] OTHER -> TRUE

\* timestamp - offset(1) taken unconditionally: the closest grid point strictly earlier,
\* also for a timestamp that is on the offset
rollback_before(name, day) ==
    IF name = "W-SUN" THEN day - 1 - weekday(day)
    ELSE IF \E d \in MonthEnds : d < day
    THEN CHOOSE d \in MonthEnds : d < day /\ \A e \in MonthEnds : e < day => e <= d
    ELSE day - 31

\* a rollback that leaves every timestamp where it is
rollback_skipped(name, day) == day

\* offset.rollback(timestamp): the timestamp itself when on the offset,
\* otherwise timestamp - offset(1), the closest earlier grid point
rollback(name, day) ==
    IF onOffset(name, day) THEN day
    ELSE CHOOSE d \in (day - 31) .. (day - 1) :
            /\ onOffset(name, d)
            /\ \A e \in (d + 1) .. (day - 1) : ~onOffset(name, e)

\* the frequency strings the model declares
Freqs == {"M", "W", "B", "D", "H", "12H", "W-MON", "foo"}

\* to_offset(freq).name: "W" is standardized to "W-SUN"
freq_name(f) == IF f = "W" THEN "W-SUN" ELSE f

\* whether pandas knows the frequency string at all
valid_freq(f) == f # "foo"

\* hours of a fixed frequency (a Tick); 0 for a non-fixed one
tick_hours(f) ==
    CASE f = "D" -> 24
      [] f = "H" -> 1
      [] f = "12H" -> 12
      [] OTHER -> 0

\* Timestamp.floor(freq) for a fixed frequency: multiples of the period since the epoch
floor_hours(f, day, hour) ==
    LET total == day * 24 + hour
    IN  total - (total % tick_hours(f))

-----------------------------------------------------------------------------
(* Values of the `start` field. *)

NoStart == [k |-> "absent", day |-> 0, hour |-> 0, tz |-> FALSE, freq |-> ""]
BadStartString == [k |-> "badstr", day |-> 0, hour |-> 0, tz |-> FALSE, freq |-> ""]
StartString(day, hour, tz) == [k |-> "str", day |-> day, hour |-> hour, tz |-> tz, freq |-> ""]
Timestamp(day, hour, tz, f) == [k |-> "ts", day |-> day, hour |-> hour, tz |-> tz, freq |-> f]

\* an exception by what its message says: the field name the message contains ("" when
\* it contains none), and the numbers it gives as expected and as got
NoError == [kind |-> "none", field |-> "", what |-> "", expected |-> 0, got |-> 0]
Error(kind, field, what, expected, got) ==
    [kind |-> kind, field |-> field, what |-> what, expected |-> expected, got |-> got]

\* ProcessStartField.process without its cache: a Timestamp, or the exception raised
process_uncached(string, f) ==
    IF string.k \notin {"str", "ts"} \/ ~valid_freq(f)
    THEN [raised |-> "ValueError", value |-> NoStart]
    ELSE IF freq_name(f) \in {"M", "W-SUN"}
    THEN [raised |-> "",
          value |-> Timestamp(rollback(freq_name(f), string.day), 0, string.tz, freq_name(f))]
    ELSE IF f = "B"
    THEN [raised |-> "", value |-> Timestamp(string.day, string.hour, string.tz, f)]
    ELSE IF tick_hours(f) = 0
    THEN [raised |-> "ValueError", value |-> NoStart]
    ELSE LET h == floor_hours(f, string.day, string.hour)
         IN  [raised |-> "",
              value |-> Timestamp((h - (h % 24)) \div 24, h % 24, string.tz, f)]

CacheMaxSize == 10000

cache_hit(c, string, f) == \E i \in 1 .. Len(c) : c[i].string = string /\ c[i].freq = f

cache_index(c, string, f) == CHOOSE i \in 1 .. Len(c) : c[i].string = string /\ c[i].freq = f

\* @lru_cache(maxsize=10000): a hit moves the key to the front; a miss that returns
\* is stored at the front, the least recently used key dropped beyond maxsize;
\* a call that raises stores nothing
cache_move_to_front(c, i) == <<c[i]>> \o SubSeq(c, 1, i - 1) \o SubSeq(c, i + 1, Len(c))

cache_store(c, entry) ==
    IF Len(c) + 1 > CacheMaxSize THEN <<entry>> \o SubSeq(c, 1, CacheMaxSize - 1)
    ELSE <<entry>> \o c

\* a miss: the result r of the wrapped function is stored unless it is an exception
cache_miss(c, string, f, r) ==
    IF r.raised # ""
    THEN [raised |-> r.raised, value |-> r.value, cache |-> c]
    ELSE [raised |-> "", value |-> r.value,
          cache |-> cache_store(c, [string |-> string, freq |-> f, value |-> r.value])]

cache_found(c, i) == [raised |-> "", value |-> c[i].value, cache |-> cache_move_to_front(c, i)]

process(c, string, f) ==
    IF cache_hit(c, string, f)
    THEN cache_found(c, cache_index(c, string, f))
    ELSE cache_miss(c, string, f, process_uncached(string, f))

\* a __call__ that does not look at the timezone of the Timestamp
start_processed_any_tz(d, r) ==
    IF r.raised # ""
    THEN [data |-> d, cache |-> r.cache,
          err |-> Error("GluonTSDataError", "start", "parse", 0, 0)]
    ELSE [data |-> [d EXCEPT !.start = r.value], cache |-> r.cache, err |-> NoError]

\* ProcessStartField.__call__: data[name] raises KeyError when the key is missing,
\* and only TypeError and ValueError are turned into GluonTSDataError
\* the part of ProcessStartField.__call__ after process(...) ended as r
start_processed(d, r) ==
    IF r.raised # ""
    THEN [data |-> d, cache |-> r.cache,
          err |-> Error("GluonTSDataError", "start", "parse", 0, 0)]
    ELSE IF r.value.tz
    THEN [data |-> d, cache |-> r.cache,
          err |-> Error("GluonTSDataError", "start", "timezone", 0, 0)]
    ELSE [data |-> [d EXCEPT !.start = r.value], cache |-> r.cache, err |-> NoError]

ProcessStartField(c, d, f) ==
    IF d.start.k = "absent"
    THEN [data |-> d, cache |-> c, err |-> Error("KeyError", "start", "missing", 0, 0)]
    ELSE start_processed(d, process(c, d.start, f))

-----------------------------------------------------------------------------
(* Values of the array fields: a raw (nested) list, or a numpy array. *)

Num(n) == [t |-> "num", n |-> n, s |-> ""]
NaN == [t |-> "nan", n |-> 0, s |-> ""]
Str(s) == [t |-> "str", n |-> 0, s |-> s]

NoValue == [k |-> "absent", dtype |-> "", shape |-> <<>>, flat |-> <<>>]
List(shape, flat) == [k |-> "list", dtype |-> "", shape |-> shape, flat |-> flat]
ndarray(dtype, shape, flat) == [k |-> "ndarray", dtype |-> dtype, shape |-> shape, flat |-> flat]

ndim(value) == Len(value.shape)

\* whether numpy can convert one element to the dtype: float("NaN") is nan,
\* any other text is refused, and not-a-number has no integer value
castable(x, dtype) ==
    CASE x.t = "num" -> TRUE
      [] x.t = "nan" -> dtype = "float32"
      [] OTHER -> dtype = "float32" /\ x.s = "NaN"

cast(x, dtype) == IF x.t = "str" /\ x.s = "NaN" /\ dtype = "float32" THEN NaN ELSE x

\* np.asarray(value, dtype=dtype): raises ValueError when an element cannot be converted
asarray(value, dtype) ==
    IF \E i \in 1 .. Len(value.flat) : ~castable(value.flat[i], dtype)
    THEN [raised |-> "ValueError", value |-> NoValue]
    ELSE [raised |-> "",
          value |-> ndarray(dtype, value.shape,
                            [i \in 1 .. Len(value.flat) |-> cast(value.flat[i], dtype)])]

\* an expand_dims that adds no axis
expand_dims_skipped(value) == value

\* np.expand_dims(a=value, axis=0)
expand_dims(value) == [value EXCEPT !.shape = <<1>> \o value.shape]

\* ProcessTimeSeriesField.__init__
req_ndim(is_static) == IF is_static THEN 1 ELSE 2

field_dtype(is_cat) == IF is_cat THEN "int32" ELSE "float32"

\* ProcessTimeSeriesField.__call__; the ValueError of np.asarray is not caught, and the
\* bad-shape message reports ddiff where it says "got" and does not contain the field name
\* a rank check without the promotion: any rank other than the required one is refused
array_checked_strict(name, required_ndim, d, a, ddiff) ==
    IF a.raised # ""
    THEN [data |-> d, err |-> Error(a.raised, "", "cast", 0, 0)]
    ELSE IF ddiff # 0
    THEN [data |-> d,
          err |-> Error("GluonTSDataError", "", "bad_shape", required_ndim, ddiff)]
    ELSE [data |-> [d EXCEPT ![name] = a.value], err |-> NoError]

\* the part of ProcessTimeSeriesField.__call__ after np.asarray ended as a
array_checked(name, required_ndim, d, a, ddiff) ==
    IF a.raised # ""
    THEN [data |-> d, err |-> Error(a.raised, "", "cast", 0, 0)]
    ELSE IF ddiff = 1
    THEN [data |-> [d EXCEPT ![name] = expand_dims(a.value)], err |-> NoError]
    ELSE IF ddiff # 0
    THEN [data |-> d,
          err |-> Error("GluonTSDataError", "", "bad_shape", required_ndim, ddiff)]
    ELSE [data |-> [d EXCEPT ![name] = a.value], err |-> NoError]

ProcessTimeSeriesField(name, is_required, is_static, is_cat, d) ==
    IF d[name].k # "absent"
    THEN array_checked(name, req_ndim(is_static), d, asarray(d[name], field_dtype(is_cat)),
                       req_ndim(is_static) - ndim(d[name]))
    ELSE IF ~is_required
    THEN [data |-> d, err |-> NoError]
    ELSE [data |-> d, err |-> Error("GluonTSDataError", name, "missing", 0, 0)]

\* ProcessDataEntry.__init__: the transformations, in order
trans(one_dim) ==
    << [name |-> "start", is_required |-> TRUE, is_cat |-> FALSE, is_static |-> FALSE],
       [name |-> "target", is_required |-> TRUE, is_cat |-> FALSE, is_static |-> one_dim],
       [name |-> "feat_dynamic_cat", is_required |-> FALSE, is_cat |-> TRUE, is_static |-> FALSE],
       [name |-> "feat_dynamic_real", is_required |-> FALSE, is_cat |-> FALSE, is_static |-> FALSE],
       [name |-> "feat_static_cat", is_required |-> FALSE, is_cat |-> TRUE, is_static |-> TRUE],
       [name |-> "feat_static_real", is_required |-> FALSE, is_cat |-> FALSE, is_static |-> TRUE] >>

with_cache(r, c) == [data |-> r.data, cache |-> c, err |-> r.err]

\* one transformation t applied to the dict
apply(t, c, d, f) ==
    IF t.name = "start"
    THEN ProcessStartField(c, d, f)
    ELSE with_cache(ProcessTimeSeriesField(t.name, t.is_required, t.is_static, t.is_cat, d), c)

RECURSIVE run_trans(_, _, _, _, _)
\* transformation i ended as r: an exception ends the loop
run_step(ts, i, f, r) ==
    IF r.err.kind # "none"
    THEN [data |-> r.data, cache |-> r.cache, err |-> r.err, step |-> i]
    ELSE run_trans(ts, i + 1, r.cache, r.data, f)

\* the loop of ProcessDataEntry.__call__ from transformation i on
run_trans(ts, i, c, d, f) ==
    IF i > Len(ts)
    THEN [data |-> d, cache |-> c, err |-> NoError, step |-> 0]
    ELSE run_step(ts, i, f, apply(ts[i], c, d, f))

\* ProcessDataEntry.__call__
ProcessDataEntry(c, d, f, one_dim) == run_trans(trans(one_dim), 1, c, d, f)

-----------------------------------------------------------------------------
(* The raw records the model draws from. *)

\* the `source` key: missing, a SourceContext, or the text str() makes of one
NoSource == [k |-> "absent", source |-> "", row |-> 0]
SourceContext(source, row) == [k |-> "ctx", source |-> source, row |-> row]

DataEntry(start, target, fdc, fdr, fsc, fsr) ==
    [start |-> start, target |-> target, feat_dynamic_cat |-> fdc,
     feat_dynamic_real |-> fdr, feat_static_cat |-> fsc, feat_static_real |-> fsr,
     source |-> NoSource]

TimeSeriesFields ==
    {"target", "feat_dynamic_cat", "feat_dynamic_real", "feat_static_cat", "feat_static_real"}

\* a regular nested list of rank r over a row of elements: a scalar for rank 0
Nested(r, row) ==
    IF r = 0 THEN List(<<>>, <<row[1]>>)
    ELSE List([i \in 1 .. r |-> IF i = r THEN Len(row) ELSE 1], row)

GoodRow == <<Num(1), Num(2)>>
NaNRow == <<Num(1), NaN>>
MarkerRow == <<Str("NaN"), Num(2)>>
BadRow == <<Str("abc"), Num(1)>>

\* two series of two steps each, shape (2, 2)
TwoSeries == List(<<2, 2>>, <<Num(1), NaN, Num(3), Num(4)>>)

RawFeatures == {NoValue, Nested(1, BadRow)} \cup {Nested(r, GoodRow) : r \in 0 .. MaxRank}

RawTargets ==
    {NoValue, Nested(1, BadRow), Nested(1, MarkerRow), TwoSeries}
        \cup {Nested(r, NaNRow) : r \in 0 .. MaxRank}

HoursOfDay == {0, 5, 17}

RawStarts ==
    {StartString(d, h, tz) : d \in 0 .. MaxDay, h \in HoursOfDay, tz \in BOOLEAN}

\* records that differ in `start` alone
StartRecords ==
    {DataEntry(s, Nested(1, GoodRow), NoValue, NoValue, NoValue, NoValue) :
        s \in RawStarts \cup {NoStart, BadStartString}}

\* records that differ in the array fields, under four kinds of `start`
FieldRecords ==
    {DataEntry(s, t, fdc, fdr, fsc, fsr) :
        s \in {NoStart, BadStartString, StartString(2, 5, FALSE), StartString(2, 5, TRUE)},
        t \in RawTargets, fdc \in RawFeatures, fdr \in RawFeatures,
        fsc \in RawFeatures, fsr \in RawFeatures}

-----------------------------------------------------------------------------
(* The record processor applied to one dict. *)

NoOutcome == [status |-> "none", err |-> NoError, step |-> 0, data |-> <<>>, cache |-> <<>>]

\* a ListDataset not constructed yet
NoListDataset ==
    [status |-> "none", list_data |-> <<>>, err |-> NoError, pulled |-> 0,
     heap |-> <<>>, cache |-> <<>>]

\* a FileDataset not constructed yet
NoFileDataset == [status |-> "none", path |-> "", freq |-> "", one_dim_target |-> TRUE]

NoTrainDatasets == [status |-> "none"]

InitProcessor ==
    /\ \/ freq \in Freqs /\ data \in StartRecords
       \/ freq = "D" /\ data \in FieldRecords
    /\ one_dim_target \in BOOLEAN
    /\ cache = <<>>
    /\ before = data
    /\ outcome = NoOutcome
    /\ calls = 0
    /\ heap = <<>> /\ data_iter = <<>> /\ list_ds = NoListDataset /\ iters = <<>>
    /\ disk = <<>> /\ file_ds = NoFileDataset /\ fiters = <<>>
    /\ train_ds = NoTrainDatasets

\* process(data): the dict is changed in place, up to the transformation that raised
Outcome(r) ==
    [status |-> IF r.err.kind = "none" THEN "returned" ELSE "raised",
     err |-> r.err, step |-> r.step, data |-> r.data, cache |-> r.cache]

Call ==
    /\ calls < MaxCalls
    /\ outcome' = Outcome(ProcessDataEntry(cache, data, freq, one_dim_target))
    /\ data' = outcome'.data
    /\ cache' = outcome'.cache
    /\ before' = data
    /\ calls' = calls + 1
    /\ UNCHANGED <<freq, one_dim_target, listVars, fileVars, train_ds>>

NextProcessor == Call

SpecProcessor == InitProcessor /\ [][NextProcessor]_vars

-----------------------------------------------------------------------------
(* Claims about the record processor, checked under SpecProcessor. *)

\* the position of a field's transformation in the processor's list
step_of(name) == CHOOSE i \in 1 .. Len(trans(one_dim_target)) : trans(one_dim_target)[i].name = name

policy(name) == trans(one_dim_target)[step_of(name)]

\* the last call ran the field's transformation: it returned, or raised there or later
reached(name) ==
    \/ outcome.status = "returned"
    \/ outcome.status = "raised" /\ outcome.step >= step_of(name)

\* the last call was handed an array of rank r for the field, every element convertible
supplied(name, r) ==
    /\ reached(name)
    /\ before[name].k # "absent"
    /\ ndim(before[name]) = r
    /\ \A i \in 1 .. Len(before[name].flat) :
           castable(before[name].flat[i], field_dtype(policy(name).is_cat))

rank_mismatch(name) ==
    /\ outcome.status = "raised"
    /\ outcome.step = step_of(name)
    /\ outcome.err.kind = "GluonTSDataError"
    /\ outcome.err.what = "bad_shape"

accepted(name) == outcome.status = "returned" \/ outcome.step > step_of(name)

promoted(name) == accepted(name) /\ data[name].shape = <<1>> \o before[name].shape

\* C1: every failure of the record processor is a GluonTSDataError and no other error
\* kind (missing start, unparseable start, timezone, missing target, failed cast,
\* rank mismatch).  The code lets KeyError and ValueError through.
C1_OnlyDataError ==
    outcome.status = "raised" => outcome.err.kind = "GluonTSDataError"

\* C2 as stated: under every field policy a 1-D array where 2-D is expected is promoted
\* to (1, T) and accepted, and a 0-D or 3-D array fails with a rank-mismatch DataError
C2_Original ==
    \A name \in TimeSeriesFields :
        /\ supplied(name, 1) /\ req_ndim(policy(name).is_static) = 2 => promoted(name)
        /\ supplied(name, 0) \/ supplied(name, 3) => rank_mismatch(name)

\* C2 amended: a 1-D array where 2-D is expected is promoted to (1, T); a 0-D array where
\* 1-D is expected is promoted to shape (1,); a 0-D array where 2-D is expected and a 3-D
\* array for any field fail with a rank-mismatch DataError
C2_Coercion ==
    \A name \in TimeSeriesFields :
        /\ supplied(name, 1) /\ req_ndim(policy(name).is_static) = 2 => promoted(name)
        /\ supplied(name, 0) /\ req_ndim(policy(name).is_static) = 1 => promoted(name)
        /\ supplied(name, 0) /\ req_ndim(policy(name).is_static) = 2 => rank_mismatch(name)
        /\ supplied(name, 3) => rank_mismatch(name)

C2_Witness ==
    /\ outcome.status = "returned"
    /\ ~one_dim_target
    /\ supplied("target", 1) /\ data.target.shape = <<1, 2>>
    /\ supplied("feat_dynamic_cat", 1) /\ data.feat_dynamic_cat.shape = <<1, 2>>
    /\ supplied("feat_static_real", 0) /\ data.feat_static_real.shape = <<1>>

\* C5: when the processor succeeds, target has rank 1 in univariate mode and rank 2 in
\* multivariate mode, every present dynamic feature has rank 2 and every present static
\* feature has rank 1
C5_Shapes ==
    outcome.status = "returned" =>
        /\ ndim(data.target) = IF one_dim_target THEN 1 ELSE 2
        /\ \A name \in {"feat_dynamic_cat", "feat_dynamic_real"} :
               data[name].k # "absent" => ndim(data[name]) = 2
        /\ \A name \in {"feat_static_cat", "feat_static_real"} :
               data[name].k # "absent" => ndim(data[name]) = 1

C5_Witness ==
    /\ outcome.status = "returned"
    /\ ~one_dim_target
    /\ ndim(before.target) = 1 /\ ndim(data.target) = 2
    /\ ndim(before.feat_dynamic_real) = 2 /\ ndim(data.feat_dynamic_real) = 2
    /\ ndim(before.feat_static_cat) = 0 /\ ndim(data.feat_static_cat) = 1

\* whether transformation i alone fails on the dict as it was before the call
fails_alone(i) ==
    apply(trans(one_dim_target)[i], <<>>, before, freq).err.kind # "none"

\* C7: a failing call stops at the first failing transformation of the fixed order, and
\* the dict the caller passed in holds no field value changed by the failed call.  The
\* code has replaced the fields of the transformations that succeeded before the failure.
C7_FailFastNoPartialState ==
    outcome.status = "raised" =>
        /\ fails_alone(outcome.step)
        /\ \A i \in 1 .. (outcome.step - 1) : ~fails_alone(i)
        /\ data = before

\* the grid of a frequency: month ends at midnight, Sundays at midnight, business days,
\* multiples of the period
on_grid(ts, f) ==
    CASE f = "M" -> ts.day \in MonthEnds /\ ts.hour = 0
      [] f = "W" -> weekday(ts.day) = 6 /\ ts.hour = 0
      [] f = "B" -> weekday(ts.day) \in 0 .. 4
      [] OTHER -> (ts.day * 24 + ts.hour) % tick_hours(f) = 0

\* C10 as stated: the start of a validated entry lies on the grid of the declared frequency
C10_Original ==
    outcome.status = "returned" => on_grid(data.start, freq)

\* C10 amended: the start of a validated entry lies on the grid of a month-end,
\* week-ending-Sunday or fixed frequency; under business-day it is the raw timestamp
\* unchanged, on a business day only when the raw timestamp is
C10_GridAlignment ==
    outcome.status = "returned" =>
        IF freq = "B"
        THEN /\ data.start.day = before.start.day
             /\ data.start.hour = before.start.hour
        ELSE /\ on_grid(data.start, freq)
             /\ data.start.day * 24 + data.start.hour
                    <= before.start.day * 24 + before.start.hour

C10_Witness ==
    /\ outcome.status = "returned"
    /\ freq = "B"
    /\ before.start.k = "str"
    /\ weekday(data.start.day) = 5
    /\ data.start.hour = 17

\* C12: the DataError of a rank mismatch names the offending field and states the
\* expected rank and the actual rank: for every field and every supplied array whose
\* rank r is neither the expected rank nor one less, the message names that field,
\* gives the field's required rank as expected and gives r as the rank it got.
C12_RankMessage ==
    \A name \in TimeSeriesFields :
        rank_mismatch(name) =>
            /\ outcome.err.field = name
            /\ outcome.err.expected = req_ndim(policy(name).is_static)
            /\ outcome.err.got = ndim(before[name])

\* the entry's start field has been normalized: it holds the Timestamp that
\* process returned for the raw value
normalized == data.start.k = "ts"

\* C11: normalization is idempotent.  For every frequency and every timezone-free raw
\* timestamp that was accepted, normalizing the normalized timestamp again gives the
\* same timestamp, computed afresh (empty cache) as well as through the cache the
\* program has at that point (a miss after the first call, a hit after the second),
\* and a second pass of the processor over the entry leaves start as it was.
C11_Idempotent ==
    normalized =>
        /\ process(<<>>, data.start, freq).raised = ""
        /\ process(<<>>, data.start, freq).value = data.start
        /\ process(cache, data.start, freq).raised = ""
        /\ process(cache, data.start, freq).value = data.start
        /\ before.start.k = "ts" => data.start = before.start

\* a raw timestamp off the month-end grid was normalized, normalized again by a second
\* call (a miss, computed afresh), and the normalized key is now served from the cache
C11_Witness ==
    /\ calls = 2
    /\ outcome.status = "returned"
    /\ freq = "M"
    /\ Len(cache) = 2
    /\ cache[2].string.k = "str"
    /\ cache[2].string.day # data.start.day
    /\ cache[1].string = data.start
    /\ cache_hit(cache, data.start, freq)

\* the last call was handed a raw timestamp that carries a timezone offset
tz_supplied == calls >= 1 /\ before.start.k = "str" /\ before.start.tz

\* the frequencies process accepts: month end, week ending Sunday, business day, fixed
accepted_freq == valid_freq(freq) /\ (freq_name(freq) \in {"M", "W-SUN", "B"} \/ tick_hours(freq) > 0)

\* C13: a raw timestamp with a timezone offset is refused with a DataError at the start
\* step, for every frequency and on every call; for the frequencies process accepts
\* (month end, week ending Sunday, business day, fixed) the error is the timezone
\* error and the timezone-carrying Timestamp is in the cache, so that the next call
\* with the same (value, frequency) is served from the cache and refused again; the
\* entry's start is left as the raw value.
C13_TimezoneRejected ==
    tz_supplied =>
        /\ outcome.status = "raised"
        /\ outcome.step = step_of("start")
        /\ outcome.err.kind = "GluonTSDataError"
        /\ outcome.err.field = "start"
        /\ data.start = before.start
        /\ accepted_freq =>
                /\ outcome.err.what = "timezone"
                /\ cache_hit(cache, data.start, freq)
                /\ cache[cache_index(cache, data.start, freq)].value.tz

\* the second call with the same raw value and frequency: the single cached result was
\* served, and the call was refused for the timezone with start still raw
C13_Witness ==
    /\ calls = 2
    /\ tz_supplied
    /\ freq = "W"
    /\ Len(cache) = 1
    /\ cache[1].string = data.start
    /\ cache[1].value.tz
    /\ cache[1].value.day # data.start.day
    /\ outcome.status = "raised"
    /\ outcome.err.what = "timezone"

-----------------------------------------------------------------------------
(* ListDataset: built from an iterable of dict objects, iterated by generators. *)

MaxObjs == 2        \* dict objects on the heap
MaxRecs == 3        \* records the input iterable delivers
MaxIters == 2       \* generators over one dataset
MaxRounds == 2      \* iterations started on one generator slot

Objs == 1 .. MaxObjs
Iterators == 1 .. MaxIters

GoodRecord == DataEntry(StartString(2, 5, FALSE), Nested(1, NaNRow), Nested(1, GoodRow),
                        NoValue, NoValue, NoValue)
NoTargetRecord == DataEntry(StartString(3, 0, FALSE), NoValue, NoValue, NoValue, NoValue, NoValue)
NoStartRecord == DataEntry(NoStart, Nested(1, GoodRow), NoValue, NoValue, NoValue, NoValue)
BadCastRecord == DataEntry(StartString(4, 0, FALSE), Nested(1, BadRow), NoValue, NoValue,
                           NoValue, NoValue)
MultiRecord == DataEntry(StartString(5, 17, FALSE), TwoSeries, NoValue, NoValue, NoValue,
                         Nested(0, GoodRow))

ListRecords == {GoodRecord, NoTargetRecord, NoStartRecord, BadCastRecord, MultiRecord}

\* a generator that has not been created
NoIterator == [state |-> "none", pos |-> 0, got |-> <<>>, rounds |-> 0]

RECURSIVE list_comprehension(_, _, _, _, _, _)
\* process(data) ended as r for item i: the dict is changed in place, and an exception
\* ends the comprehension
list_processed(items, i, h, f, one_dim, r) ==
    IF r.err.kind # "none"
    THEN [heap |-> [h EXCEPT ![items[i]] = r.data], cache |-> r.cache, err |-> r.err,
          pulled |-> i]
    ELSE list_comprehension(items, i + 1, r.cache, [h EXCEPT ![items[i]] = r.data], f, one_dim)

\* [process(data) for data in data_iter] from item i on
list_comprehension(items, i, c, h, f, one_dim) ==
    IF i > Len(items)
    THEN [heap |-> h, cache |-> c, err |-> NoError, pulled |-> Len(items)]
    ELSE list_processed(items, i, h, f, one_dim, ProcessDataEntry(c, h[items[i]], f, one_dim))

\* self.list_data is assigned only when the comprehension r ended without an exception
Constructed(items, r) ==
    [status |-> IF r.err.kind = "none" THEN "ok" ELSE "failed",
     list_data |-> IF r.err.kind = "none" THEN items ELSE <<>>,
     err |-> r.err, pulled |-> r.pulled, heap |-> r.heap, cache |-> r.cache]

\* ListDataset.__init__
ListDataset__init__ ==
    /\ list_ds.status = "none"
    /\ list_ds' = Constructed(data_iter,
                              list_comprehension(data_iter, 1, cache, heap, freq, one_dim_target))
    /\ heap' = list_ds'.heap
    /\ cache' = list_ds'.cache
    /\ UNCHANGED <<freq, one_dim_target, procVars, data_iter, iters, fileVars, train_ds>>

\* ListDataset.__len__
ListDataset__len__ == Len(list_ds.list_data)

\* iter(dataset): a new generator of ListDataset.__iter__, nothing run yet
ListDataset__iter__(it) ==
    /\ list_ds.status = "ok"
    /\ iters[it].state \in {"none", "done"}
    /\ iters[it].rounds < MaxRounds
    /\ iters' = [iters EXCEPT ![it] = [state |-> "running", pos |-> 0, got |-> <<>>,
                                       rounds |-> @.rounds + 1]]
    /\ UNCHANGED <<freq, one_dim_target, cache, procVars, heap, data_iter, list_ds,
                   fileVars, train_ds>>

\* the source tag and row the generator gives the dict it yields at position row
list_source(row) == SourceContext("list_data", row)

\* next(generator): the next dict of list_data gets its source written and is yielded
\* (the consumer holds the object, and notes the source it saw); past the end the
\* generator stops
ListDataset__next__(it) ==
    /\ iters[it].state = "running"
    /\ LET row == iters[it].pos + 1
       IN  IF row <= Len(list_ds.list_data)
           THEN LET obj == list_ds.list_data[row]
                IN  /\ heap' = [heap EXCEPT ![obj].source = list_source(row)]
                    /\ iters' = [iters EXCEPT ![it].pos = row,
                                    ![it].got = Append(@, [obj |-> obj,
                                                           source |-> heap'[obj].source])]
           ELSE /\ iters' = [iters EXCEPT ![it].state = "done"]
                /\ UNCHANGED heap
    /\ UNCHANGED <<freq, one_dim_target, cache, procVars, data_iter, list_ds,
                   fileVars, train_ds>>

\* sequences over S of length 0 .. n
SeqsUpTo(S, n) == UNION {[1 .. m -> S] : m \in 0 .. n}

InitList ==
    /\ freq = "D"
    /\ one_dim_target \in BOOLEAN
    /\ cache = <<>>
    /\ heap \in [Objs -> ListRecords]
    /\ data_iter \in SeqsUpTo(Objs, MaxRecs)
    /\ list_ds = NoListDataset
    /\ iters = [it \in Iterators |-> NoIterator]
    /\ before = heap
    /\ data = <<>> /\ outcome = NoOutcome /\ calls = 0
    /\ disk = <<>> /\ file_ds = NoFileDataset /\ fiters = <<>>
    /\ train_ds = NoTrainDatasets

NextList ==
    \/ ListDataset__init__
    \/ \E it \in Iterators : ListDataset__iter__(it)
    \/ \E it \in Iterators : ListDataset__next__(it)

SpecList == InitList /\ [][NextList]_vars

-----------------------------------------------------------------------------
(* Claims about ListDataset, checked under SpecList. *)

\* whether the record processor accepts the dict object as it was handed in
valid_record(obj) ==
    ProcessDataEntry(<<>>, before[obj], freq, one_dim_target).err.kind = "none"

\* whether an entry is a validated one: a Timestamp and arrays of the ranks of the mode
validated(d) ==
    /\ d.start.k = "ts"
    /\ d.target.k = "ndarray" /\ ndim(d.target) = IF one_dim_target THEN 1 ELSE 2
    /\ \A name \in TimeSeriesFields \ {"target"} :
           d[name].k # "absent" =>
               d[name].k = "ndarray" /\ ndim(d[name]) = req_ndim(policy(name).is_static)

\* C6: every iteration of a ListDataset of n records yields n entries in the original
\* order, the k-th with source ('list_data', k), also when iterations interleave and
\* when the iterable delivered one dict object more than once; and an entry keeps the
\* source it was yielded with.  One dict object listed twice is one entry: its source
\* is overwritten when it is yielded again.
C6_IterationProvenance ==
    list_ds.status = "ok" =>
        \A it \in Iterators :
            /\ Len(iters[it].got) <= ListDataset__len__
            /\ iters[it].state = "done" => Len(iters[it].got) = ListDataset__len__
            /\ \A k \in 1 .. Len(iters[it].got) :
                   /\ iters[it].got[k].obj = data_iter[k]
                   /\ iters[it].got[k].source = SourceContext("list_data", k)
                   /\ heap[iters[it].got[k].obj].source = iters[it].got[k].source

\* C8: ListDataset construction runs every record through the processor in order; it
\* fails with a DataError at the first invalid record, later records are not processed
\* and no dataset is retained; when it succeeds every stored record is validated.
\* A record without `start` makes construction fail with a KeyError (see C1).
C8_EagerConstruction ==
    /\ list_ds.status = "failed" =>
           /\ list_ds.err.kind = "GluonTSDataError"
           /\ ~valid_record(data_iter[list_ds.pulled])
           /\ \A j \in 1 .. (list_ds.pulled - 1) : valid_record(data_iter[j])
           /\ \A obj \in Objs :
                  (\A j \in 1 .. list_ds.pulled : data_iter[j] # obj) => heap[obj] = before[obj]
           /\ list_ds.list_data = <<>>
    /\ list_ds.status = "ok" =>
           /\ list_ds.list_data = data_iter
           /\ \A j \in 1 .. Len(data_iter) : validated(heap[data_iter[j]])

-----------------------------------------------------------------------------
(* FileDataset: JSON Lines files under a directory, read anew by every iteration. *)

MaxFiles == 2       \* files in the directory read
MaxLines == 2       \* lines of one file

\* FileDataset.is_valid
is_valid(name) == ~(name = ".hidden" \/ name = "_SUCCESS")

\* util.find_files(path, FileDataset.is_valid): the eligible files, in the directory's order
find_files(dir) == SelectSeq(dir, LAMBDA file : is_valid(file.name))

\* FileDataset.files
files(path) == find_files(disk[path])

RECURSIVE JsonLinesFiles(_)
\* jsonl.JsonLinesFile over each file in turn: each line's content and its span
\* (path, line number counted from 1)
JsonLinesFiles(fs) ==
    IF fs = <<>> THEN <<>>
    ELSE [i \in 1 .. Len(fs[1].lines) |->
             [content |-> fs[1].lines[i], path |-> fs[1].name, line |-> i]]
         \o JsonLinesFiles(Tail(fs))

\* FileDataset.__len__
FileDataset__len__(path) == Len(JsonLinesFiles(files(path)))

\* FileDataset.__init__: OSError when no eligible file is found
FileDataset__init__ ==
    /\ file_ds.status = "none"
    /\ file_ds' = [status |-> IF files("input") = <<>> THEN "OSError" ELSE "ok",
                   path |-> "input", freq |-> freq, one_dim_target |-> one_dim_target]
    /\ UNCHANGED <<freq, one_dim_target, cache, procVars, listVars, disk, fiters, train_ds>>

\* iter(dataset): a new generator of FileDataset.__iter__, nothing read yet
FileDataset__iter__(it) ==
    /\ file_ds.status = "ok"
    /\ fiters[it].state \in {"none", "done", "raised"}
    /\ fiters[it].rounds < MaxRounds
    /\ fiters' = [fiters EXCEPT ![it] = [state |-> "running", pos |-> 0, got |-> <<>>,
                                         rounds |-> @.rounds + 1, err |-> NoError]]
    /\ UNCHANGED <<freq, one_dim_target, cache, procVars, listVars, disk, file_ds, train_ds>>

\* data = self.process(line.content); data["source"] = SourceContext(...); yield data.
\* An exception of process leaves the generator finished.
line_processed(g, line, r) ==
    IF r.err.kind # "none"
    THEN [state |-> "raised", pos |-> g.pos + 1, got |-> g.got, rounds |-> g.rounds,
          err |-> r.err, cache |-> r.cache]
    ELSE [state |-> "running", pos |-> g.pos + 1,
          got |-> Append(g.got, [r.data EXCEPT !.source = SourceContext(line.path, line.line)]),
          rounds |-> g.rounds, err |-> NoError, cache |-> r.cache]

\* next(generator) on a generator g of the dataset ds, with the cache c
file_next(ds, g, c) ==
    IF g.pos + 1 > FileDataset__len__(ds.path)
    THEN [state |-> "done", pos |-> g.pos, got |-> g.got, rounds |-> g.rounds,
          err |-> NoError, cache |-> c]
    ELSE line_processed(g, JsonLinesFiles(files(ds.path))[g.pos + 1],
                        ProcessDataEntry(c, JsonLinesFiles(files(ds.path))[g.pos + 1].content,
                                         ds.freq, ds.one_dim_target))

FileDataset__next__(it) ==
    /\ fiters[it].state = "running"
    /\ fiters' = [fiters EXCEPT ![it] = file_next(file_ds, fiters[it], cache)]
    /\ cache' = fiters'[it].cache
    /\ UNCHANGED <<freq, one_dim_target, procVars, listVars, disk, file_ds, train_ds>>

NoFileIterator ==
    [state |-> "none", pos |-> 0, got |-> <<>>, rounds |-> 0, err |-> NoError, cache |-> <<>>]

FileNames == {"a.json", "b.json", ".hidden", "_SUCCESS"}

FileRecords == {GoodRecord, NoTargetRecord, NoStartRecord}

\* the directories a model run can start from: files of distinct names
Directories ==
    {dir \in SeqsUpTo([name : FileNames, lines : SeqsUpTo(FileRecords, MaxLines)], MaxFiles) :
        \A a, b \in 1 .. Len(dir) : a # b => dir[a].name # dir[b].name}

InitFile ==
    /\ freq = "D"
    /\ one_dim_target = TRUE
    /\ cache = <<>>
    /\ disk \in {[input |-> dir, metadata |-> <<>>, train |-> <<>>, test |-> <<>>] :
                     dir \in Directories}
    /\ file_ds = NoFileDataset
    /\ fiters = [it \in Iterators |-> NoFileIterator]
    /\ data = <<>> /\ before = <<>> /\ outcome = NoOutcome /\ calls = 0
    /\ heap = <<>> /\ data_iter = <<>> /\ list_ds = NoListDataset /\ iters = <<>>
    /\ train_ds = NoTrainDatasets

NextFile ==
    \/ FileDataset__init__
    \/ \E it \in Iterators : FileDataset__iter__(it)
    \/ \E it \in Iterators : FileDataset__next__(it)

SpecFile == InitFile /\ [][NextFile]_vars

-----------------------------------------------------------------------------
(* Claims about FileDataset, checked under SpecFile. *)

\* the lines of the dataset in traversal order
all_lines == JsonLinesFiles(files("input"))

valid_line(i) ==
    ProcessDataEntry(<<>>, all_lines[i].content, freq, one_dim_target).err.kind = "none"

\* the position of the first invalid line; one past the end when every line is valid
first_invalid ==
    IF \A i \in 1 .. Len(all_lines) : valid_line(i) THEN Len(all_lines) + 1
    ELSE CHOOSE i \in 1 .. Len(all_lines) :
            ~valid_line(i) /\ \A j \in 1 .. (i - 1) : valid_line(j)

\* the validated entry of line i with its provenance
entry_of_line(i) ==
    [ProcessDataEntry(<<>>, all_lines[i].content, freq, one_dim_target).data
        EXCEPT !.source = SourceContext(all_lines[i].path, all_lines[i].line)]

\* C9: a FileDataset over a directory with an eligible file is constructed even when
\* lines are invalid; each iteration starts at the first line of the first file, yields
\* with provenance every record before the first invalid line, raises a DataError
\* exactly at that line and yields nothing after it; a second iteration does the same.
\* A line without `start` ends the iteration with a KeyError (see C1).
C9_LazyFailure ==
    /\ file_ds.status # "none" => (file_ds.status = "ok" <=> files("input") # <<>>)
    /\ file_ds.status = "ok" =>
           \A it \in Iterators :
               /\ Len(fiters[it].got) < first_invalid
               /\ \A k \in 1 .. Len(fiters[it].got) : fiters[it].got[k] = entry_of_line(k)
               /\ fiters[it].state = "raised" =>
                      /\ fiters[it].err.kind = "GluonTSDataError"
                      /\ fiters[it].pos = first_invalid
                      /\ Len(fiters[it].got) = first_invalid - 1
               /\ fiters[it].state = "done" => Len(fiters[it].got) = Len(all_lines)

-----------------------------------------------------------------------------
(* MetaData, the serializer, save_datasets and load_datasets. *)

\* MetaData.Config.allow_population_by_alias
allow_population_by_alias == TRUE

BasicFeatureInfo(name) == [cls |-> "BasicFeatureInfo", name |-> name, cardinality |-> ""]
CategoricalFeatureInfo(name, cardinality) ==
    [cls |-> "CategoricalFeatureInfo", name |-> name, cardinality |-> cardinality]

MetaData(f, fsc, fsr, fdr, fdc) ==
    [freq |-> f, feat_static_cat |-> fsc, feat_static_real |-> fsr,
     feat_dynamic_real |-> fdr, feat_dynamic_cat |-> fdc]

\* a feature descriptor as a plain dict, and back as the class its field declares
info_dict(info) == [name |-> info.name, cardinality |-> info.cardinality]
info_parse(cls, d) == [cls |-> cls, name |-> d.name, cardinality |-> d.cardinality]

\* MetaData.dict(): keyed by field name, so the frequency is under "freq", not under
\* its alias "time_granularity"
MetaData_dict(m) ==
    [freq_key |-> "freq", freq |-> m.freq,
     feat_static_cat |-> [i \in 1 .. Len(m.feat_static_cat) |-> info_dict(m.feat_static_cat[i])],
     feat_static_real |-> [i \in 1 .. Len(m.feat_static_real) |-> info_dict(m.feat_static_real[i])],
     feat_dynamic_real |-> [i \in 1 .. Len(m.feat_dynamic_real) |-> info_dict(m.feat_dynamic_real[i])],
     feat_dynamic_cat |-> [i \in 1 .. Len(m.feat_dynamic_cat) |-> info_dict(m.feat_dynamic_cat[i])]]

\* MetaData.parse_file: the frequency is read from the alias, or from the field name
\* when population by field name is allowed; otherwise validation fails
MetaData_parse(o) ==
    IF o.freq_key = "time_granularity" \/ (allow_population_by_alias /\ o.freq_key = "freq")
    THEN [ok |-> TRUE,
          meta |-> MetaData(o.freq,
              [i \in 1 .. Len(o.feat_static_cat) |->
                  info_parse("CategoricalFeatureInfo", o.feat_static_cat[i])],
              [i \in 1 .. Len(o.feat_static_real) |->
                  info_parse("BasicFeatureInfo", o.feat_static_real[i])],
              [i \in 1 .. Len(o.feat_dynamic_real) |->
                  info_parse("BasicFeatureInfo", o.feat_dynamic_real[i])],
              [i \in 1 .. Len(o.feat_dynamic_cat) |->
                  info_parse("CategoricalFeatureInfo", o.feat_dynamic_cat[i])])]
    ELSE [ok |-> FALSE, meta |-> MetaData("", <<>>, <<>>, <<>>, <<>>)]

\* serialize_field on an array: not-a-number becomes the text "NaN", then tolist()
serialize_array(field) ==
    List(field.shape,
         [i \in 1 .. Len(field.flat) |->
             IF field.flat[i].t = "nan" THEN Str("NaN") ELSE field.flat[i]])

\* serialize_field on a Timestamp: str(field), the date and time without the frequency
serialize_start(field) ==
    IF field.k = "ts" THEN StartString(field.day, field.hour, field.tz) ELSE field

\* serialize_field on a SourceContext: str(field)
serialize_source(field) ==
    IF field.k = "ctx" THEN [k |-> "str", source |-> field.source, row |-> field.row]
    ELSE field

serialize_field(name, field) ==
    CASE name = "start" -> serialize_start(field)
      [] name = "source" -> serialize_source(field)
      [] OTHER -> IF field.k = "ndarray" THEN serialize_array(field) ELSE field

\* serialize_data_entry: every key of the dict is kept, `source` included
serialize_data_entry(d) == [name \in DOMAIN d |-> serialize_field(name, d[name])]

RECURSIVE list_entries(_, _, _)
\* `for entry in dataset.train` over a ListDataset from row i on, each entry serialized
\* as it is yielded: the lines, and the heap with the sources written
list_entries(items, i, h) ==
    IF i > Len(items) THEN [lines |-> <<>>, heap |-> h]
    ELSE [lines |-> <<serialize_data_entry(
                        [h EXCEPT ![items[i]].source = list_source(i)][items[i]])>>
                    \o list_entries(items, i + 1,
                                    [h EXCEPT ![items[i]].source = list_source(i)]).lines,
          heap |-> list_entries(items, i + 1,
                                [h EXCEPT ![items[i]].source = list_source(i)]).heap]

RECURSIVE file_entries(_, _, _)
\* a whole iteration of a FileDataset, continued from generator g: the generator when
\* it is done or has raised
file_entries(ds, g, c) ==
    IF g.state # "running" THEN g
    ELSE file_entries(ds, file_next(ds, g, c), file_next(ds, g, c).cache)

NewFileIterator ==
    [state |-> "running", pos |-> 0, got |-> <<>>, rounds |-> 1, err |-> NoError, cache |-> <<>>]

\* the lines written for a dataset (kind: list or file), the exception that ended the
\* iteration if any, and the heap and cache it leaves
Written(kind, h, c) ==
    IF kind = "list"
    THEN [lines |-> list_entries(list_ds.list_data, 1, h).lines, err |-> NoError,
          heap |-> list_entries(list_ds.list_data, 1, h).heap, cache |-> c]
    ELSE [lines |-> [i \in 1 .. Len(file_entries(file_ds, NewFileIterator, c).got) |->
                        serialize_data_entry(file_entries(file_ds, NewFileIterator, c).got[i])],
          err |-> file_entries(file_ds, NewFileIterator, c).err,
          heap |-> h,
          cache |-> IF FileDataset__len__(file_ds.path) = 0 THEN c
                    ELSE file_entries(file_ds, NewFileIterator, c).cache]

data_json(lines) == <<[name |-> "data.json", lines |-> lines]>>

\* save_datasets once train was written as tr and test (when there is one) as te: an
\* exception while train is written leaves test unwritten
Saved(td, tr, te) ==
    [status |-> IF tr.err.kind # "none" \/ (td.test # "none" /\ te.err.kind # "none")
                THEN "save_failed" ELSE "saved",
     err |-> IF tr.err.kind # "none" THEN tr.err
             ELSE IF td.test # "none" THEN te.err ELSE NoError,
     disk |-> [input |-> disk.input,
               metadata |-> <<[name |-> "metadata.json", lines |-> <<MetaData_dict(td.metadata)>>]>>,
               train |-> data_json(tr.lines),
               test |-> IF tr.err.kind = "none" /\ td.test # "none"
                        THEN data_json(te.lines) ELSE <<>>],
     heap |-> IF tr.err.kind = "none" /\ td.test # "none" THEN te.heap ELSE tr.heap,
     cache |-> IF tr.err.kind = "none" /\ td.test # "none" THEN te.cache ELSE tr.cache]

constructed(kind) ==
    CASE kind = "list" -> list_ds.status = "ok"
      [] kind = "file" -> file_ds.status = "ok"
      [] OTHER -> TRUE

after_save(td, sv) == [td EXCEPT !.saved = sv, !.status = sv.status, !.err = sv.err]

\* save_datasets(dataset, path, overwrite=True) into an empty path
save_datasets ==
    /\ train_ds.status = "given"
    /\ constructed(train_ds.train) /\ constructed(train_ds.test)
    /\ train_ds' = after_save(train_ds,
           Saved(train_ds, Written(train_ds.train, heap, cache),
                 Written(train_ds.test, Written(train_ds.train, heap, cache).heap,
                         Written(train_ds.train, heap, cache).cache)))
    /\ disk' = train_ds'.saved.disk
    /\ heap' = train_ds'.saved.heap
    /\ cache' = train_ds'.saved.cache
    /\ UNCHANGED <<freq, one_dim_target, procVars, data_iter, list_ds, iters, file_ds, fiters>>

\* FileDataset(path, freq): one_dim_target keeps its default, True
LoadedFileDataset(path, f) ==
    [status |-> IF files(path) = <<>> THEN "OSError" ELSE "ok",
     path |-> path, freq |-> f, one_dim_target |-> TRUE]

\* what load_datasets returns once metadata.json was parsed as m: the MetaData and a
\* FileDataset for train, and for test when a test path is given; an exception of any
\* of the three ends the call
Loaded(td, m, test) ==
    [td EXCEPT
        !.meta = m,
        !.loaded_train = IF m.ok THEN LoadedFileDataset("train", m.meta.freq)
                         ELSE NoFileDataset,
        !.loaded_test = IF m.ok /\ files("train") # <<>> /\ test # "none"
                        THEN LoadedFileDataset(test, m.meta.freq) ELSE NoFileDataset,
        !.status = IF m.ok /\ files("train") # <<>> /\ (test = "none" \/ files(test) # <<>>)
                   THEN "loaded" ELSE "load_failed"]

\* load_datasets(metadata, train, test); test is the test directory or None
load_datasets(test) ==
    /\ train_ds.status = "saved"
    /\ train_ds' = Loaded(train_ds, MetaData_parse(disk.metadata[1].lines[1]), test)
    /\ UNCHANGED <<freq, one_dim_target, cache, procVars, listVars, fileVars>>

\* list(loaded.train): one whole iteration of the loaded train dataset
iterate_loaded ==
    /\ train_ds.status = "loaded"
    /\ train_ds' = [train_ds EXCEPT
           !.result = file_entries(train_ds.loaded_train, NewFileIterator, cache),
           !.status = "iterated"]
    /\ cache' = IF FileDataset__len__("train") = 0 THEN cache ELSE train_ds'.result.cache
    /\ UNCHANGED <<freq, one_dim_target, procVars, listVars, fileVars>>

MetaDatas ==
    {MetaData("D", fsc, fsr, <<>>, fdc) :
        fsc \in {<<>>, <<CategoricalFeatureInfo("c", "3")>>},
        fsr \in {<<>>, <<BasicFeatureInfo("r"), BasicFeatureInfo("s")>>},
        fdc \in {<<>>, <<CategoricalFeatureInfo("d", "2")>>}}

SaveRecords == {GoodRecord, MultiRecord}

SaveDirectories ==
    { <<>>,
      <<[name |-> "_SUCCESS", lines |-> <<>>], [name |-> "a.json", lines |-> <<GoodRecord>>]>>,
      <<[name |-> "a.json", lines |-> <<GoodRecord, NoTargetRecord>>]>> }

GivenTrainDatasets ==
    [status : {"given"}, metadata : MetaDatas, train : {"list", "file"},
     test : {"none", "list", "file"}, saved : {<<>>}, meta : {<<>>},
     loaded_train : {NoFileDataset}, loaded_test : {NoFileDataset},
     result : {NoFileIterator}, err : {NoError}]

InitSave ==
    /\ freq = "D"
    /\ one_dim_target \in BOOLEAN
    /\ cache = <<>>
    /\ heap \in [Objs -> SaveRecords]
    /\ data_iter \in SeqsUpTo(Objs, MaxRecs)
    /\ list_ds = NoListDataset
    /\ iters = [it \in Iterators |-> NoIterator]
    /\ before = heap
    /\ data = <<>> /\ outcome = NoOutcome /\ calls = 0
    /\ disk \in {[input |-> dir, metadata |-> <<>>, train |-> <<>>, test |-> <<>>] :
                    dir \in SaveDirectories}
    /\ file_ds = NoFileDataset
    /\ fiters = [it \in Iterators |-> NoFileIterator]
    /\ train_ds \in GivenTrainDatasets

NextSave ==
    \/ ListDataset__init__
    \/ FileDataset__init__
    \/ save_datasets
    \/ \E test \in {"test", "none"} : load_datasets(test)
    \/ iterate_loaded

SpecSave == InitSave /\ [][NextSave]_vars

-----------------------------------------------------------------------------
(* Claims about save_datasets and load_datasets, checked under SpecSave. *)

\* the record lines written under a directory of the saved dataset
record_lines(path) == JsonLinesFiles(disk[path])

\* C3: no record line written to train/data.json or test/data.json holds the key
\* `source`.  serialize_data_entry keeps every key of the yielded entry, and iteration
\* has set `source` on it, so every line written carries it.
C3_SourceNotPersisted ==
    train_ds.status \in {"saved", "save_failed"} =>
        \A path \in {"train", "test"} :
            \A i \in 1 .. Len(record_lines(path)) :
                record_lines(path)[i].content.source.k = "absent"

\* the validated train entries of the dataset that was saved, in order
original_train ==
    IF train_ds.train = "list"
    THEN [k \in 1 .. Len(list_ds.list_data) |-> heap[list_ds.list_data[k]]]
    ELSE [k \in 1 .. FileDataset__len__("input") |->
             ProcessDataEntry(<<>>, JsonLinesFiles(files("input"))[k].content,
                              freq, one_dim_target).data]

\* C4: after save_datasets, load_datasets and a whole iteration of the loaded train
\* dataset, the MetaData has the same frequency and feature descriptor lists, and the
\* train records come back in the same number and order with equal target arrays, in
\* univariate and in multivariate mode.  load_datasets builds the FileDataset in
\* univariate mode whatever the mode of the saved dataset, so a saved (D, T) target is
\* refused with a rank-mismatch DataError when the loaded dataset is iterated.
C4_RoundTrip ==
    train_ds.status = "iterated" =>
        /\ train_ds.meta.meta = train_ds.metadata
        /\ train_ds.result.state = "done"
        /\ Len(train_ds.result.got) = Len(original_train)
        /\ \A k \in 1 .. Len(train_ds.result.got) :
               train_ds.result.got[k].target = original_train[k].target

====
